---- MODULE Spec2Model ----
(***************************************************************************)
(* Model of the VA.gov assistant: VAChatbot.get_responses (chatbot.py),    *)
(* its two callers (main in chatbot.py, the loop of                        *)
(* run_synthetic_evaluation.py) and DocumentProcessor.query_documents      *)
(* (embeddings.py).  External services (moderation, document store         *)
(* ranking, the model providers) are nondeterministic choices over their   *)
(* possible outcomes, including failure.                                   *)
(***************************************************************************)
EXTENDS Integers, Sequences, FiniteSets, TLC

VARIABLES
    chat_history,   \* st.session_state.chat_history (chatbot.py:315)
    csv_file,       \* chat_eval_log.csv: [exists, lines]
    collection,     \* chunks held by the persistent document store
    pc,             \* position inside the running call / its caller
    caller,         \* "main" | "synthetic" | "none"
    query,          \* parameter query of get_responses
    arg_history,    \* parameter chat_history of get_responses
    history_safe,   \* is_safe of the history messages checked so far (chatbot.py:157)
    model1,         \* parameter model1
    model2,         \* parameter model2
    context,        \* local context (chatbot.py:143)
    messages,       \* local messages (chatbot.py:149)
    request1,       \* the request sent to the provider of slot 1
    request2,       \* the request sent to the provider of slot 2
    response1,      \* response1.content
    response2,      \* response2.content
    is_safe1,       \* chatbot.py:201
    is_safe2,       \* chatbot.py:202
    eval_cases,     \* the LLMTestCase objects handed to the metrics
    log_row,        \* local log_row (chatbot.py:275)
    ret,            \* the tuple returned by get_responses
    exc,            \* the exception that left get_responses, or NoExc
    unpacked,       \* what the caller bound from the returned tuple
    calls,          \* the external calls made in this turn, in order
    query_moderation, \* what the moderation service answered for the query
    dp,             \* the DocumentProcessor and its running process_documents
    query_result,   \* what the last query_documents call returned
    ck,             \* a call of _create_chunks: arguments and result
    ex,             \* a call of extract_claude_text: argument and results
    em,             \* a call of the embedding function: input, output, service calls
    ev,             \* an assistant turn stored by main and split by the evaluator
    sc              \* the VAScraper and its running crawl_va_pages

vars == << chat_history, csv_file, collection, pc, caller, query, arg_history,
           model1, model2, context, messages, request1, request2, response1,
           response2, is_safe1, is_safe2, eval_cases, log_row, ret, exc,
           unpacked, calls, query_moderation, history_safe, dp, query_result,
           ck, ex, em, ev, sc >>

\* the variables get_responses and its callers never touch
Aux == << dp, query_result, ck, ex, em, ev, sc >>

\* the variables of the embedding function, the evaluator and the scraper
Others == << em, ev, sc >>

-----------------------------------------------------------------------------
(* Bounds *)

\* new calls of get_responses start while the session history has at most
\* MaxHistory messages
MaxHistory == 2

\* the synthetic runner starts while chat_eval_log.csv has fewer than
\* MaxLogRows data rows
MaxLogRows == 1

-----------------------------------------------------------------------------
(* Text helpers: str.lower, the in operator on strings, str.join *)

UpperLetters == "ABCDEFGHIJKLMNOPQRSTUVWXYZ"
LowerLetters == "abcdefghijklmnopqrstuvwxyz"

CharAt(s, i) == SubSeq(s, i, i)

LowerChar(c) ==
    IF \E i \in 1..Len(UpperLetters) : CharAt(UpperLetters, i) = c
    THEN CharAt(LowerLetters,
                CHOOSE i \in 1..Len(UpperLetters) : CharAt(UpperLetters, i) = c)
    ELSE c

RECURSIVE Lower(_)
Lower(s) ==
    IF Len(s) = 0 THEN ""
    ELSE LowerChar(CharAt(s, 1)) \o Lower(SubSeq(s, 2, Len(s)))

\* Python: sub in s
Contains(sub, s) ==
    \E i \in 1..(Len(s) - Len(sub) + 1) : SubSeq(s, i, i + Len(sub) - 1) = sub

\* Python: sep.join(parts), computed by halves
RECURSIVE Join(_, _)
Join(sep, parts) ==
    IF Len(parts) = 0 THEN ""
    ELSE IF Len(parts) = 1 THEN parts[1]
    ELSE Join(sep, SubSeq(parts, 1, Len(parts) \div 2)) \o sep
            \o Join(sep, SubSeq(parts, Len(parts) \div 2 + 1, Len(parts)))

\* the characters str.split() treats as separators
Whitespace == { " ", "\n", "\t" }

\* the positions of s at which a word begins
WordStarts(s) ==
    { i \in 1..Len(s) :
        /\ CharAt(s, i) \notin Whitespace
        /\ (i = 1 \/ CharAt(s, i - 1) \in Whitespace) }

\* the position at which the word beginning at i ends
WordEnd(s, i) ==
    CHOOSE j \in i..Len(s) :
        /\ \A k \in i..j : CharAt(s, k) \notin Whitespace
        /\ (j = Len(s) \/ CharAt(s, j + 1) \in Whitespace)

\* Python: s.split(), the words between runs of whitespace, in order
split(s) ==
    LET starts == WordStarts(s)
        nth(n) == CHOOSE i \in starts :
                     Cardinality({ j \in starts : j < i }) = n - 1
    IN  [n \in 1..Cardinality(starts) |-> SubSeq(s, nth(n), WordEnd(s, nth(n)))]

\* Python: s * n, computed by halves
RECURSIVE Repeat(_, _)
Repeat(s, n) ==
    IF n <= 0 THEN ""
    ELSE IF n = 1 THEN s
    ELSE Repeat(s, n \div 2) \o Repeat(s, n - n \div 2)

-----------------------------------------------------------------------------
(* Program constants *)

\* VAChatbot.available_models
available_models ==
    [ m \in { "GPT-4 (Expensive)", "GPT-3.5 (Cheap)",
              "Claude-3-Opus (Expensive)", "Claude-3.7-Sonnet (Cheap)" } |->
        CASE m = "GPT-4 (Expensive)" ->
               [provider |-> "openai", model |-> "gpt-4", temperature |-> "0.7"]
          [] m = "GPT-3.5 (Cheap)" ->
               [provider |-> "openai", model |-> "gpt-3.5-turbo", temperature |-> "0.7"]
          [] m = "Claude-3-Opus (Expensive)" ->
               [provider |-> "claude", model |-> "claude-3-opus-20240229", temperature |-> "0.7"]
          [] m = "Claude-3.7-Sonnet (Cheap)" ->
               [provider |-> "claude", model |-> "claude-3-7-sonnet-20250219", temperature |-> "0.7"] ]

\* VAChatbot.system_prompt (the fixed instructions, abbreviated)
system_prompt == "You are a helpful VA assistant that answers questions about VA benefits and services using information from VA.gov."

\* the keyword list of get_responses
medical_keywords ==
    { "diagnose", "diagnosis", "treatment", "symptom", "condition",
      "illness", "disease", "medication", "prescription", "doctor",
      "healthcare", "medical", "therapy", "cure", "heal" }

\* the text returned for a medical query
medical_msg == "I cannot provide medical advice. For medical questions, please:\n1. Contact your VA healthcare provider\n2. Visit your nearest VA medical center\n3. Use My HealtheVet secure messaging\n4. Call 911 for emergencies\n\nI can help you with VA benefits, services, and administrative questions."

\* the text returned when check_moderation reports the query not safe
RefusalMsg(reason) ==
    "I apologize, but I cannot process that request. " \o reason
        \o " Please keep your questions focused on VA benefits and services."

\* default n_results of query_documents
n_results_default == 8

\* fieldnames of the row get_responses appends to chat_eval_log.csv
log_fieldnames ==
    << "timestamp", "prompt", "model1", "model2", "response1", "response2",
       "score1", "score2", "faithfulness1", "faithfulness2",
       "contextual_precision1", "contextual_precision2",
       "contextual_recall1", "contextual_recall2",
       "contextual_relevancy1", "contextual_relevancy2" >>

-----------------------------------------------------------------------------
(* The environment: inputs and the outcomes of the external services *)

Queries ==
    { "GI Bill",                      \* no keyword
      "I want to kill myself",        \* the spec's crisis scenario
      "Find a Doctor",                \* medical keyword, mixed case
      "SUICIDE or therapy" }          \* self-harm word and medical keyword

ModelLabels == DOMAIN available_models

\* outcomes of openai_client.moderations.create
ModClean   == [kind |-> "clean", categories |-> <<>>, msg |-> ""]
ModFlagged == [kind |-> "flagged", categories |-> <<"hate", "violence">>, msg |-> ""]
ModRaise   == [kind |-> "raise", categories |-> <<>>, msg |-> "Connection error."]
ModOutcomes == { ModClean, ModFlagged, ModRaise }

\* values a provider can hand to extract_claude_text
Str(s)   == [kind |-> "str",   text |-> s,  items |-> <<>>]
Dict(s)  == [kind |-> "dict",  text |-> s,  items |-> <<>>]  \* dict with key "text"
DictInt(r) == [kind |-> "dict_int", text |-> r, items |-> <<>>]  \* {"text": int}, r its str()
IntVal(r) == [kind |-> "int",   text |-> r,  items |-> <<>>]  \* an int, r its str()
Obj(s)   == [kind |-> "obj",   text |-> s,  items |-> <<>>]  \* object with .text
Other(r) == [kind |-> "other", text |-> r,  items |-> <<>>]  \* r is its str()
List(xs) == [kind |-> "list",  text |-> "", items |-> xs]

\* outcomes of llm.invoke(messages) (content is a string)
OpenAIOutcomes ==
    { [kind |-> "ok", content |-> Str("Apply online at VA.gov. [Source: u1]")],
      [kind |-> "raise", content |-> Str("")] }

\* outcomes of client.messages.create (content is a list of blocks)
ClaudeOutcomes ==
    { [kind |-> "ok", content |-> List(<< Obj("Use"), Obj("VA.gov") >>)],
      [kind |-> "raise", content |-> Str("")] }

\* a chunk of the document store
Chunk(id, text, url, title, idx) ==
    [id |-> id, text |-> text,
     metadata |-> [url |-> url, title |-> title, chunk_idx |-> idx]]

\* a document of va_content.json
Doc(url, title, content) == [url |-> url, title |-> title, content |-> content]

\* a file with one document of fifty words
ScenarioFile == << Doc("u1", "t1", Repeat("word ", 50)) >>

\* the file behind the store of the chatbot
TwoDocFile == << Doc("u1", "t1", "Apply for the GI Bill"),
                 Doc("u2", "t2", "Sign in with Login.gov") >>

\* a file whose first document has no words
BlankDocFile == << Doc("u3", "t3", "  "), Doc("u4", "t4", "VA health care") >>

\* contents va_content.json, or the file handed to process_documents, can have
DocFiles == { << >>, ScenarioFile, TwoDocFile, BlankDocFile }

\* embeddings.py:45: chunk_size: int = 300
chunk_size_default == 300

\* the chunk sizes process_documents is called with
ChunkSizes == { 100, chunk_size_default }

\* contents the store can have when the chatbot is constructed
Stores ==
    { << Chunk("doc_0_chunk_0", "Apply for the GI Bill", "u1", "t1", 0),
         Chunk("doc_1_chunk_0", "Sign in with Login.gov", "u2", "t2", 0) >> }

\* the orders in which the store can rank n chunks
Rankings(n) ==
    { p \in [1..n -> 1..n] : \A i, j \in 1..n : p[i] = p[j] => i = j }

-----------------------------------------------------------------------------
(* Pure functions of the program *)

\* VAChatbot.check_moderation: <<is_safe, reason>> for an outcome of the service
check_moderation(o) ==
    IF o.kind = "raise" THEN << FALSE, "Error checking moderation: " \o o.msg >>
    ELSE IF o.kind = "flagged"
         THEN << FALSE, "Content flagged for: " \o Join(", ", o.categories) >>
         ELSE << TRUE, "" >>

\* the keyword test without lower()
is_medical_query_case_sensitive(q) ==
    \E keyword \in medical_keywords : Contains(keyword, q)

\* chatbot.py:124: any(keyword in query.lower() for keyword in medical_keywords)
is_medical_query(q) ==
    \E keyword \in medical_keywords : Contains(keyword, Lower(q))

\* "\n".join(texts) raised: an element of texts is not a string
TypeError == [kind |-> "raise", text |-> "TypeError", items |-> <<>>]

\* chatbot.py:92-98: what extract_claude_text appends to texts for one block
\* of a list: block["text"] as it is, str(block.text), or str(block)
BlockText(block) ==
    IF block.kind = "dict_int" THEN IntVal(block.text) ELSE Str(block.text)

\* chatbot.py:99: "\n".join(texts)
JoinTexts(texts) ==
    IF \E i \in 1..Len(texts) : texts[i].kind # "str" THEN TypeError
    ELSE Str(Join("\n", [i \in 1..Len(texts) |-> texts[i].text]))

\* VAChatbot.extract_claude_text: the value returned, or TypeError raised
extract_claude_text(content) ==
    IF content.kind = "list"
    THEN JoinTexts([i \in 1..Len(content.items) |-> BlockText(content.items[i])])
    ELSE IF content.kind = "dict_int" THEN IntVal(content.text)
    ELSE Str(content.text)

\* the query that returns every chunk whatever n_results is
query_documents_all(coll, p, n_results) ==
    [i \in 1..Len(coll) |-> [text |-> coll[p[i]].text, metadata |-> coll[p[i]].metadata]]

\* DocumentProcessor.query_documents, for a ranking p chosen by the store
query_documents(coll, p, n_results) ==
    LET k == IF Len(coll) < n_results THEN Len(coll) ELSE n_results
    IN  [i \in 1..k |-> [text |-> coll[p[i]].text, metadata |-> coll[p[i]].metadata]]

\* embeddings.py:80: current_size += len(word) + 1
WordSize(word) == Len(word) + 1

\* the end of _create_chunks without the flush of the last chunk
FlushChunk_Dropped(chunks, current_chunk) == chunks

\* embeddings.py:87-88: the words left over make the last chunk
FlushChunk(chunks, current_chunk) ==
    IF current_chunk # << >> THEN Append(chunks, Join(" ", current_chunk))
    ELSE chunks

\* a flush test that lets a chunk of exactly chunk_size grow by a word
ChunkFull_Strict(current_size, chunk_size) == current_size > chunk_size

\* embeddings.py:82: if current_size >= chunk_size
ChunkFull(current_size, chunk_size) == current_size >= chunk_size

\* embeddings.py:79-80: current_size after words a..b went into the chunk,
\* summed by halves
RECURSIVE SizeOf(_, _, _)
SizeOf(words, a, b) ==
    IF b < a THEN 0
    ELSE IF a = b THEN WordSize(words[a])
    ELSE SizeOf(words, a, (a + b) \div 2)
            + SizeOf(words, (a + b) \div 2 + 1, b)

\* embeddings.py:82: the first word from start on at which
\* current_size >= chunk_size, or 0 when the words end before
ChunkEnd(words, start, chunk_size) ==
    LET full == { j \in start..Len(words) :
                    ChunkFull(SizeOf(words, start, j), chunk_size) }
    IN  IF full = {} THEN 0
        ELSE CHOOSE j \in full : \A k \in full : j <= k

\* embeddings.py:77-88: the loop over words, taken one chunk at a step from
\* word start on: the words up to ChunkEnd are joined and appended (83-85),
\* the words left at the end are flushed (87-88)
RECURSIVE ChunkLoop(_, _, _, _)
ChunkLoop(words, start, chunk_size, chunks) ==
    LET end == ChunkEnd(words, start, chunk_size)
    IN  IF end = 0
        THEN FlushChunk(chunks, SubSeq(words, start, Len(words)))
        ELSE ChunkLoop(words, end + 1, chunk_size,
                       Append(chunks, Join(" ", SubSeq(words, start, end))))

\* DocumentProcessor._create_chunks
create_chunks(text, chunk_size) ==
    ChunkLoop(split(text), 1, chunk_size, << >>)

\* the chunk id that leaves out the document index
ChunkId_NoDoc(idx, chunk_idx) == "chunk_" \o ToString(chunk_idx)

\* embeddings.py:66: f"doc_{idx}_chunk_{chunk_idx}"
ChunkId(idx, chunk_idx) ==
    "doc_" \o ToString(idx) \o "_chunk_" \o ToString(chunk_idx)

\* embeddings.py:55-67: the collection.add calls made for document idx
DocAdds(doc, idx, chunk_size) ==
    LET chunks == create_chunks(doc.content, chunk_size)
    IN  [c \in 1..Len(chunks) |->
            Chunk(ChunkId(idx, c - 1), chunks[c], doc.url, doc.title, c - 1)]

\* embeddings.py:50-67: the collection.add calls of process_documents, in
\* order, for the documents numbered from idx on
RECURSIVE AddsFrom(_, _, _)
AddsFrom(documents, idx, chunk_size) ==
    IF idx >= Len(documents) THEN << >>
    ELSE DocAdds(documents[idx + 1], idx, chunk_size)
            \o AddsFrom(documents, idx + 1, chunk_size)

\* DocumentProcessor.process_documents: its collection.add calls
process_documents(documents, chunk_size) == AddsFrom(documents, 0, chunk_size)

\* collection.add of one chunk; an id the collection holds is not added again
CollectionAdd(coll, chunk) ==
    IF \E i \in 1..Len(coll) : coll[i].id = chunk.id THEN coll
    ELSE Append(coll, chunk)

\* get_responses: the context string built from the retrieved documents
BuildContext(relevant_docs) ==
    Join("\n\n",
         [i \in 1..Len(relevant_docs) |->
            "Content: " \o relevant_docs[i].text
               \o "\nSource: " \o relevant_docs[i].metadata.url])

\* langchain message objects
SystemMessage(c) == [role |-> "system", content |-> c]
HumanMessage(c)  == [role |-> "human",  content |-> c]
AIMessage(c)     == [role |-> "ai",     content |-> c]

\* get_responses: the loop over chat_history; mod[i] is the outcome of the
\* moderation call made for message i (used for user messages only)
RECURSIVE HistoryMessages(_, _, _)
HistoryMessages(hist, mod, i) ==
    IF i > Len(hist) THEN << >>
    ELSE LET message == hist[i]
             rest    == HistoryMessages(hist, mod, i + 1)
         IN  IF message.role = "user" /\ ~ check_moderation(mod[i])[1]
             THEN rest
             ELSE << IF message.role = "user"
                     THEN HumanMessage(message.content)
                     ELSE AIMessage(message.content) >> \o rest

\* get_responses: the message list
BuildMessages(ctx, hist, mod, q) ==
    << SystemMessage(system_prompt \o "\n\nContext:\n" \o ctx) >>
        \o HistoryMessages(hist, mod, 1)
        \o << HumanMessage(q) >>

\* the request get_responses sends for a slot with configuration cfg
NoRequest == [adapter |-> "none", model |-> "", temperature |-> "",
              max_tokens |-> 0, messages |-> << >>]

ProviderRequest(cfg, msgs, q) ==
    IF cfg.provider = "openai"
    THEN [adapter |-> "openai", model |-> cfg.model,
          temperature |-> cfg.temperature, max_tokens |-> 0, messages |-> msgs]
    ELSE [adapter |-> "claude", model |-> cfg.model,
          temperature |-> cfg.temperature, max_tokens |-> 1000,
          messages |-> << [role |-> "user", content |-> q] >>]

\* the outcomes the provider of cfg can produce
ProviderOutcomes(cfg) ==
    IF cfg.provider = "openai" THEN OpenAIOutcomes ELSE ClaudeOutcomes

\* response.content for a successful outcome o of the provider of cfg
ResponseContent(cfg, o) ==
    IF cfg.provider = "openai" THEN o.content.text
    ELSE extract_claude_text(o.content).text

\* main: the assistant turn stored in the session history
AssistantTurn(m1, m2, r1, r2) ==
    "Model 1 (" \o m1 \o "): " \o r1 \o "\nModel 2 (" \o m2 \o "): " \o r2

-----------------------------------------------------------------------------
(* State *)

\* the models main offers by default (index=1 and index=3 of the selectboxes)
SelectableModels == { "GPT-3.5 (Cheap)", "Claude-3.7-Sonnet (Cheap)" }

NoExc == "none"
Unset == "<unset>"

Event(op, slot, what) == [op |-> op, slot |-> slot, what |-> what]

\* number of data rows of a csv file
DataRows(f) == IF Len(f.lines) = 0 THEN 0 ELSE Len(f.lines) - 1

\* the locals of get_responses before a call
\* the DocumentProcessor: where it stands (pc), the documents its running
\* process_documents loaded (file), with which chunk_size, the next
\* collection.add to make (next), the collection.count() read when the
\* constructor or the call began (count0), and who began it (by)
Processor(p, file, chunk_size, next, count0, by) ==
    [pc |-> p, file |-> file, chunk_size |-> chunk_size, next |-> next,
     count0 |-> count0, by |-> by]

NoProcessor == Processor("none", << >>, chunk_size_default, 1, 0, "none")
NoResult == [k |-> 0, docs |-> << >>, raised |-> FALSE]
CkIdle == [pc |-> "idle", text |-> "", chunk_size |-> 0, chunks |-> << >>]
ExIdle == [pc |-> "idle", content |-> Str(""), result |-> Str(""),
           again |-> Str("")]

EmIdle == [pc |-> "idle", input |-> << >>, output |-> << >>,
           service_calls |-> << >>]
EvIdle == [pc |-> "idle", model1 |-> "", model2 |-> "", response1 |-> "",
           response2 |-> "", content |-> "", model1_response |-> "",
           model2_response |-> ""]
ScIdle == [pc |-> "idle", visited_urls |-> {}, to_visit |-> << >>,
           pages_data |-> << >>, max_pages |-> 0, fetched |-> << >>,
           returned |-> << >>]

\* no call of the embedding function, the evaluator or the scraper is running
OthersIdle == em = EmIdle /\ ev = EvIdle /\ sc = ScIdle

ResetLocals ==
    /\ caller' = "none"
    /\ query' = Unset
    /\ arg_history' = << >>
    /\ history_safe' = << >>
    /\ model1' = Unset
    /\ model2' = Unset
    /\ context' = Unset
    /\ messages' = << >>
    /\ request1' = NoRequest
    /\ request2' = NoRequest
    /\ response1' = Unset
    /\ response2' = Unset
    /\ is_safe1' = TRUE
    /\ is_safe2' = TRUE
    /\ eval_cases' = << >>
    /\ log_row' = << >>
    /\ ret' = << >>
    /\ exc' = NoExc
    /\ unpacked' = << >>
    /\ calls' = << >>
    /\ query_moderation' = "none"

ChatIdle ==
    /\ chat_history = << >>
    /\ csv_file = [exists |-> FALSE, lines |-> << >>]
    /\ pc = "idle"
    /\ caller = "none"
    /\ query = Unset
    /\ arg_history = << >>
    /\ history_safe = << >>
    /\ model1 = Unset
    /\ model2 = Unset
    /\ context = Unset
    /\ messages = << >>
    /\ request1 = NoRequest
    /\ request2 = NoRequest
    /\ response1 = Unset
    /\ response2 = Unset
    /\ is_safe1 = TRUE
    /\ is_safe2 = TRUE
    /\ eval_cases = << >>
    /\ log_row = << >>
    /\ ret = << >>
    /\ exc = NoExc
    /\ unpacked = << >>
    /\ calls = << >>
    /\ query_moderation = "none"

\* the chatbot's DocumentProcessor was constructed over a filled store
Init ==
    /\ ChatIdle
    /\ collection \in Stores
    /\ dp = Processor("ready", << >>, chunk_size_default, 1,
                      Len(collection), "init")
    /\ query_result = NoResult
    /\ ck = CkIdle
    /\ ex = ExIdle
    /\ OthersIdle

-----------------------------------------------------------------------------
(* Callers: entering get_responses *)

\* a call that starts after the moderation of the query
Enter_SkipCheck(c, q, hist, m1, m2) ==
    /\ pc' = "medical"
    /\ caller' = c
    /\ query' = q
    /\ arg_history' = hist
    /\ history_safe' = << >>
    /\ model1' = m1
    /\ model2' = m2
    /\ query_moderation' = "clean"
    /\ UNCHANGED << chat_history, csv_file, collection, Aux, context, messages,
                    request1, request2, response1, response2, is_safe1,
                    is_safe2, eval_cases, log_row, ret, exc, unpacked, calls >>

\* a call get_responses(q, hist, m1, m2) by caller c
Enter(c, q, hist, m1, m2) ==
    /\ pc' = "check_query"
    /\ caller' = c
    /\ query' = q
    /\ arg_history' = hist
    /\ history_safe' = << >>
    /\ model1' = m1
    /\ model2' = m2
    /\ context' = Unset
    /\ messages' = << >>
    /\ request1' = NoRequest
    /\ request2' = NoRequest
    /\ response1' = Unset
    /\ response2' = Unset
    /\ is_safe1' = TRUE
    /\ is_safe2' = TRUE
    /\ eval_cases' = << >>
    /\ log_row' = << >>
    /\ ret' = << >>
    /\ exc' = NoExc
    /\ unpacked' = << >>
    /\ calls' = << >>
    /\ query_moderation' = "none"
    /\ UNCHANGED << chat_history, csv_file, collection, Aux >>

\* main: the user types a query (chatbot.py:335-343)
Main_Submit ==
    /\ pc = "idle"
    /\ Len(chat_history) <= MaxHistory
    /\ \E q \in Queries, m1 \in SelectableModels, m2 \in SelectableModels :
          Enter("main", q, chat_history, m1, m2)

\* run_synthetic_evaluation.py:27-32: one example of the synthetic dataset
Synthetic_Call ==
    /\ pc = "idle"
    /\ Len(chat_history) <= MaxHistory
    /\ DataRows(csv_file) < MaxLogRows
    /\ \E q \in Queries, model_name \in SelectableModels :
          Enter("synthetic", q, << >>, model_name, model_name)

-----------------------------------------------------------------------------
(* VAChatbot.get_responses, statement by statement *)

Locals == << query, arg_history, model1, model2, history_safe >>
Gate == << query_moderation >>
Persistent == << chat_history, csv_file, collection, Aux >>

\* chatbot.py:114-116: moderation of the query
GR_CheckQuery ==
    /\ pc = "check_query"
    /\ \E o \in ModOutcomes :
          LET r == check_moderation(o)
          IN  /\ calls' = Append(calls, Event("moderation", 0, query))
              /\ query_moderation' = o.kind
              /\ IF ~ r[1]
                 THEN /\ ret' = << RefusalMsg(r[2]), RefusalMsg(r[2]) >>
                      /\ pc' = "returned"
                 ELSE /\ ret' = ret
                      /\ pc' = "medical"
    /\ UNCHANGED << Persistent, Locals, caller, context, messages, request1,
                    request2, response1, response2, is_safe1, is_safe2,
                    eval_cases, log_row, exc, unpacked >>

\* the medical check without its return statement
GR_MedicalCheck_NoReturn ==
    /\ pc = "medical"
    /\ pc' = "retrieve"
    /\ UNCHANGED << Persistent, Locals, Gate, caller, context, messages,
                    request1, request2, response1, response2, is_safe1,
                    is_safe2, eval_cases, log_row, ret, exc, unpacked, calls >>

\* chatbot.py:118-137: the medical keyword check
GR_MedicalCheck ==
    /\ pc = "medical"
    /\ IF is_medical_query(query)
       THEN /\ ret' = << medical_msg, medical_msg >>
            /\ pc' = "returned"
       ELSE /\ ret' = ret
            /\ pc' = "retrieve"
    /\ UNCHANGED << Persistent, Locals, Gate, caller, context, messages, request1,
                    request2, response1, response2, is_safe1, is_safe2,
                    eval_cases, log_row, exc, unpacked, calls >>

\* chatbot.py:139-146: retrieval and context assembly; the store call is not
\* guarded, so its exception leaves get_responses
GR_Retrieve ==
    /\ pc = "retrieve"
    /\ calls' = Append(calls, Event("query_documents", 0, query))
    /\ \/ /\ \E p \in Rankings(Len(collection)) :
               context' = BuildContext(
                              query_documents(collection, p, n_results_default))
          /\ pc' = "messages"
          /\ exc' = exc
       \/ /\ context' = context
          /\ pc' = "raised"
          /\ exc' = "StoreError"
    /\ UNCHANGED << Persistent, Locals, Gate, caller, messages, request1, request2,
                    response1, response2, is_safe1, is_safe2, eval_cases,
                    log_row, ret,
                    unpacked >>

\* the moderation calls the history loop makes, in order
RECURSIVE HistoryEvents(_, _)
HistoryEvents(hist, i) ==
    IF i > Len(hist) THEN << >>
    ELSE (IF hist[i].role = "user"
          THEN << Event("moderation", 0, hist[i].content) >>
          ELSE << >>) \o HistoryEvents(hist, i + 1)

\* indices of the user messages of a history
UserIdx(hist) == { i \in 1..Len(hist) : hist[i].role = "user" }

\* chatbot.py:148-166: the message list
GR_BuildMessages ==
    /\ pc = "messages"
    /\ \E um \in [UserIdx(arg_history) -> ModOutcomes] :
          LET mod == [i \in 1..Len(arg_history) |->
                         IF i \in UserIdx(arg_history) THEN um[i] ELSE ModClean]
          IN  /\ messages' = BuildMessages(context, arg_history, mod, query)
              /\ history_safe' = [i \in 1..Len(arg_history) |->
                                     check_moderation(mod[i])[1]]
    /\ calls' = calls \o HistoryEvents(arg_history, 1)
    /\ pc' = "model1"
    /\ UNCHANGED << Persistent, query, arg_history, model1, model2, Gate, caller, context, request1, request2,
                    response1, response2, is_safe1, is_safe2, eval_cases,
                    log_row, ret,
                    exc, unpacked >>

\* chatbot.py:168-182: the provider call of slot 1
GR_Model1 ==
    /\ pc = "model1"
    /\ LET model1_config == available_models[model1]
       IN  /\ request1' = ProviderRequest(model1_config, messages, query)
           /\ calls' = Append(calls, Event("generate", 1, model1_config.provider))
           /\ \E o \in ProviderOutcomes(model1_config) :
                 IF o.kind = "raise"
                 THEN /\ response1' = response1
                      /\ pc' = "raised"
                      /\ exc' = "ProviderError1"
                 ELSE /\ response1' = ResponseContent(model1_config, o)
                      /\ pc' = "model2"
                      /\ exc' = exc
    /\ UNCHANGED << Persistent, Locals, Gate, caller, context, messages, request2,
                    response2, is_safe1, is_safe2, eval_cases,
                    log_row, ret, unpacked >>

\* chatbot.py:184-198: the provider call of slot 2
GR_Model2 ==
    /\ pc = "model2"
    /\ LET model2_config == available_models[model2]
       IN  /\ request2' = ProviderRequest(model2_config, messages, query)
           /\ calls' = Append(calls, Event("generate", 2, model2_config.provider))
           /\ \E o \in ProviderOutcomes(model2_config) :
                 IF o.kind = "raise"
                 THEN /\ response2' = response2
                      /\ pc' = "raised"
                      /\ exc' = "ProviderError2"
                 ELSE /\ response2' = ResponseContent(model2_config, o)
                      /\ pc' = "output_moderation"
                      /\ exc' = exc
    /\ UNCHANGED << Persistent, Locals, Gate, caller, context, messages, request1,
                    response1, is_safe1, is_safe2, eval_cases,
                    log_row, ret, unpacked >>

\* chatbot.py:200-202: moderation of the two generated texts
GR_OutputModeration ==
    /\ pc = "output_moderation"
    /\ \E o1 \in ModOutcomes, o2 \in ModOutcomes :
          /\ is_safe1' = check_moderation(o1)[1]
          /\ is_safe2' = check_moderation(o2)[1]
    /\ calls' = calls \o << Event("moderation", 1, response1),
                            Event("moderation", 2, response2) >>
    /\ pc' = "deepeval"
    /\ UNCHANGED << Persistent, Locals, Gate, caller, context, messages, request1,
                    request2, response1, response2, eval_cases, log_row, ret,
                    exc, unpacked >>

\* deepeval LLMTestCase; "" / << >> stand for an argument that is not given
LLMTestCase(metric, slot, input, actual_output, expected_output, retrieval_context) ==
    [metric |-> metric, slot |-> slot, input |-> input,
     actual_output |-> actual_output, expected_output |-> expected_output,
     retrieval_context |-> retrieval_context]

\* chatbot.py:206-268: the test cases, in the order they are measured
DeepEvalCases(q, r1, r2, ctx) ==
    << LLMTestCase("faithfulness", 1, q, r1, "", << ctx >>),
       LLMTestCase("faithfulness", 2, q, r2, "", << ctx >>),
       LLMTestCase("contextual_precision", 1, q, r1, r1, << ctx >>),
       LLMTestCase("contextual_precision", 2, q, r2, r2, << ctx >>),
       LLMTestCase("contextual_recall", 1, q, r1, r1, << ctx >>),
       LLMTestCase("contextual_recall", 2, q, r2, r2, << ctx >>),
       LLMTestCase("contextual_relevancy", 1, q, r1, r1, << ctx >>),
       LLMTestCase("contextual_relevancy", 2, q, r2, r2, << ctx >>),
       LLMTestCase("score", 1, q, r1, "", << >>),
       LLMTestCase("score", 2, q, r2, "", << >>) >>

\* the value a measure call returned, named by the call that produced it
Score(metric, slot) == "measure(" \o metric \o (IF slot = 1 THEN "1" ELSE "2") \o ")"

\* chatbot.py:204-272: metric scoring; a measure call that raises leaves
\* get_responses
GR_DeepEval ==
    /\ pc = "deepeval"
    /\ LET cases == DeepEvalCases(query, response1, response2, context)
       IN  \/ /\ eval_cases' = cases
              /\ calls' = calls \o [i \in 1..Len(cases) |->
                                      Event("measure", cases[i].slot, cases[i].metric)]
              /\ pc' = "log"
              /\ exc' = exc
           \/ /\ eval_cases' = SubSeq(cases, 1, 2)
              /\ calls' = Append(calls, Event("measure", 1, cases[1].metric))
              /\ pc' = "raised"
              /\ exc' = "MetricError"
    /\ UNCHANGED << Persistent, Locals, Gate, caller, context, messages, request1,
                    request2, response1, response2, is_safe1, is_safe2,
                    log_row, ret, unpacked >>

\* chatbot.py:275-292: the values of log_row, in the order of its keys
LogRow(q, m1, m2, r1, r2) ==
    << "now", q, m1, m2, r1, r2,
       Score("score", 1), Score("score", 2),
       Score("faithfulness", 1), Score("faithfulness", 2),
       Score("contextual_precision", 1), Score("contextual_precision", 2),
       Score("contextual_recall", 1), Score("contextual_recall", 2),
       Score("contextual_relevancy", 1), Score("contextual_relevancy", 2) >>

\* the writer that puts a header before every row
AppendRow_AlwaysHeader(f, fieldnames, row) ==
    [exists |-> TRUE, lines |-> f.lines \o << fieldnames >> \o << row >>]

\* csv.DictWriter on a file opened in append mode: header if the file did
\* not exist, then the row
AppendRow(f, fieldnames, row) ==
    [exists |-> TRUE,
     lines  |-> f.lines \o (IF f.exists THEN << >> ELSE << fieldnames >>)
                        \o << row >>]

\* chatbot.py:274-300: the row appended to chat_eval_log.csv
GR_LogCSV ==
    /\ pc = "log"
    /\ log_row' = LogRow(query, model1, model2, response1, response2)
    /\ csv_file' = AppendRow(csv_file, log_fieldnames, log_row')
    /\ calls' = Append(calls, Event("log_row", 0, query))
    /\ pc' = "return"
    /\ UNCHANGED << chat_history, collection, Aux, Locals, Gate, caller, context, messages,
                    request1, request2, response1, response2, is_safe1,
                    is_safe2, eval_cases, ret, exc, unpacked >>

\* the fallback a suppressing return would use
SuppressedMsg == "This response was withheld."

\* a return that withholds a text its moderation did not pass
GR_Return_Suppress ==
    /\ pc = "return"
    /\ ret' = << IF is_safe1 THEN response1 ELSE SuppressedMsg,
                 IF is_safe2 THEN response2 ELSE SuppressedMsg >>
    /\ pc' = "returned"
    /\ UNCHANGED << Persistent, Locals, Gate, caller, context, messages,
                    request1, request2, response1, response2, is_safe1,
                    is_safe2, eval_cases, log_row, exc, unpacked, calls >>

\* chatbot.py:302-308: every branch returns the two generated texts
GR_Return ==
    /\ pc = "return"
    /\ ret' = IF ~ is_safe1 THEN << response1, response2 >>
              ELSE IF ~ is_safe2 THEN << response1, response2 >>
              ELSE << response1, response2 >>
    /\ pc' = "returned"
    /\ UNCHANGED << Persistent, Locals, Gate, caller, context, messages, request1,
                    request2, response1, response2, is_safe1, is_safe2,
                    eval_cases, log_row, exc, unpacked, calls, query_moderation >>

-----------------------------------------------------------------------------
(* Callers: after get_responses *)

\* Python tuple unpacking into n targets
CanUnpack(t, n) == Len(t) = n

\* chatbot.py:343: response1, response2 = get_responses(...)
Main_Unpack ==
    /\ pc = "returned"
    /\ caller = "main"
    /\ IF CanUnpack(ret, 2)
       THEN /\ unpacked' = ret
            /\ pc' = "main_update"
            /\ exc' = exc
       ELSE /\ unpacked' = unpacked
            /\ pc' = "crashed"
            /\ exc' = "ValueError"
    /\ UNCHANGED << Persistent, Locals, Gate, caller, context, messages, request1,
                    request2, response1, response2, is_safe1, is_safe2,
                    eval_cases, log_row, ret, calls >>

\* chatbot.py:351-355: the exchange is appended to the session history
Main_UpdateHistory ==
    /\ pc = "main_update"
    /\ chat_history' = chat_history \o
          << [role |-> "user", content |-> query],
             [role |-> "assistant",
              content |-> AssistantTurn(model1, model2, unpacked[1], unpacked[2])] >>
    /\ pc' = "idle"
    /\ ResetLocals
    /\ UNCHANGED << csv_file, collection, Aux >>

\* run_synthetic_evaluation.py:32-87: response, _, _ = get_responses(...);
\* when the unpacking succeeds the example is scored and kept in results
Synthetic_Unpack ==
    /\ pc = "returned"
    /\ caller = "synthetic"
    /\ IF CanUnpack(ret, 3)
       THEN /\ unpacked' = ret
            /\ pc' = "synthetic_scored"
            /\ exc' = exc
       ELSE /\ unpacked' = unpacked
            /\ pc' = "crashed"
            /\ exc' = "ValueError"
    /\ UNCHANGED << Persistent, Locals, Gate, caller, context, messages, request1,
                    request2, response1, response2, is_safe1, is_safe2,
                    eval_cases, log_row, ret, calls >>

\* the caller is done with the call: an exception nobody catches ends the
\* turn (main) or the script (runner); the runner's loop takes the next example
Caller_Exception ==
    /\ pc \in { "raised", "crashed", "synthetic_scored" }
    /\ pc' = "idle"
    /\ ResetLocals
    /\ UNCHANGED Persistent

-----------------------------------------------------------------------------
Next ==
    \/ Main_Submit
    \/ Synthetic_Call
    \/ GR_CheckQuery
    \/ GR_MedicalCheck
    \/ GR_Retrieve
    \/ GR_BuildMessages
    \/ GR_Model1
    \/ GR_Model2
    \/ GR_OutputModeration
    \/ GR_DeepEval
    \/ GR_LogCSV
    \/ GR_Return
    \/ Main_Unpack
    \/ Main_UpdateHistory
    \/ Synthetic_Unpack
    \/ Caller_Exception

Spec == Init /\ [][Next]_vars

-----------------------------------------------------------------------------
(* The document store: DocumentProcessor over the persistent collection *)

\* the largest n_results a caller asks for
MaxK == 2

\* the variables of the chatbot, which the DocumentProcessor never touches
ChatVars == << chat_history, csv_file, pc, calls, Locals, Gate, caller, context, messages,
               request1, request2, response1, response2, is_safe1, is_safe2,
               eval_cases, log_row, ret, exc, unpacked >>

\* process_documents for every file and chunk size it is called with
AddsOf ==
    { << f, chunk_size, process_documents(f, chunk_size) >> :
        f \in DocFiles, chunk_size \in ChunkSizes }

\* the collection.add calls of the running process_documents
Adds ==
    (CHOOSE t \in AddsOf : t[1] = dp.file /\ t[2] = dp.chunk_size)[3]

\* the constructor that ingests whatever the collection holds
DP_Construct_Always ==
    /\ dp.pc \in { "none", "ready", "failed" }
    /\ \/ \E f \in DocFiles :
             dp' = Processor("ingest", f, chunk_size_default, 1,
                             Len(collection), "init")
       \/ dp' = Processor("failed", << >>, chunk_size_default, 1,
                          Len(collection), "init")
    /\ query_result' = NoResult
    /\ UNCHANGED << collection, ck, ex, ChatVars, Others >>

\* embeddings.py:29-43: DocumentProcessor.__init__ in a new process over the
\* persistent collection; va_content.json holds f at that moment, or is
\* missing and open() raises
DP_Construct ==
    /\ dp.pc \in { "none", "ready", "failed" }
    /\ IF Len(collection) = 0
       THEN \/ \E f \in DocFiles :
                  dp' = Processor("ingest", f, chunk_size_default, 1,
                                  0, "init")
            \/ dp' = Processor("failed", << >>, chunk_size_default, 1,
                               0, "init")
       ELSE dp' = Processor("ready", << >>, chunk_size_default, 1,
                            Len(collection), "init")
    /\ query_result' = NoResult
    /\ UNCHANGED << collection, ck, ex, ChatVars, Others >>

\* embeddings.py:45-50: process_documents(json_file, chunk_size) called on a
\* constructed processor
DP_ProcessDocuments ==
    /\ dp.pc = "ready"
    /\ \E chunk_size \in ChunkSizes :
          \/ \E f \in DocFiles :
                dp' = Processor("ingest", f, chunk_size, 1,
                                Len(collection), "direct")
          \/ dp' = Processor("failed", << >>, chunk_size, 1,
                             Len(collection), "direct")
    /\ query_result' = NoResult
    /\ UNCHANGED << collection, ck, ex, ChatVars, Others >>

\* embeddings.py:57-67: one collection.add; the embedding call inside it can
\* fail, which ends process_documents with the chunks added so far
DP_Add ==
    /\ dp.pc = "ingest"
    /\ dp.next <= Len(Adds)
    /\ \/ /\ collection' = CollectionAdd(collection, Adds[dp.next])
          /\ dp' = [dp EXCEPT !.next = dp.next + 1]
       \/ /\ dp' = [dp EXCEPT !.pc = "failed"]
          /\ UNCHANGED collection
    /\ UNCHANGED << query_result, ck, ex, ChatVars, Others >>

\* embeddings.py:52: the loop over the documents is over
DP_Finish ==
    /\ dp.pc = "ingest"
    /\ dp.next > Len(Adds)
    /\ dp' = [dp EXCEPT !.pc = "ready"]
    /\ UNCHANGED << collection, query_result, ck, ex, ChatVars, Others >>

\* embeddings.py:92-104: query_documents(query, n_results); the store ranks
\* its chunks by p, or the embedding call fails
DP_Query ==
    /\ dp.pc = "ready"
    /\ \E k \in 1..MaxK :
          \/ \E p \in Rankings(Len(collection)) :
                query_result' = [k |-> k, raised |-> FALSE,
                                 docs |-> query_documents(collection, p, k)]
          \/ query_result' = [k |-> k, raised |-> TRUE, docs |-> << >>]
    /\ UNCHANGED << collection, dp, ck, ex, ChatVars, Others >>

InitStore ==
    /\ ChatIdle
    /\ collection = << >>
    /\ dp = NoProcessor
    /\ query_result = NoResult
    /\ ck = CkIdle
    /\ ex = ExIdle
    /\ OthersIdle

NextStore ==
    \/ DP_Construct
    \/ DP_ProcessDocuments
    \/ DP_Add
    \/ DP_Finish
    \/ DP_Query

SpecStore == InitStore /\ [][NextStore]_vars


-----------------------------------------------------------------------------
(* Vocabulary of the properties *)

\* the self-harm indicators of the policy gate (spec section 4.3, check 1)
CrisisKeywords == { "kill myself", "suicide" }

\* the fixed crisis resource message (spec section 4.3, check 1)
CrisisMsg == "If you are in crisis, call the Veterans Crisis Line: dial 988 then press 1."

\* the queries that contain a self-harm keyword, case-insensitive, anywhere
CrisisQueries ==
    { q \in Queries : \E k \in CrisisKeywords : Contains(k, Lower(q)) }

\* the queries that match a medical keyword
MedicalQueries ==
    { q \in Queries : \E k \in medical_keywords : Contains(k, Lower(q)) }

HasCrisisKeyword(q) == q \in CrisisQueries

MatchesMedicalKeyword(q) == q \in MedicalQueries

\* the calls of this turn with the given op
CallsOf(op) == { i \in 1..Len(calls) : calls[i].op = op }

\* get_responses is running or has just finished
InTurn == pc \notin { "idle" }

\* get_responses has returned to its caller
Returned == pc \in { "returned", "main_update" }

\* positions of get_responses after the input checks
Downstream ==
    { "retrieve", "messages", "model1", "model2", "output_moderation",
      "deepeval", "log", "return" }

\* what check_moderation reported for the query
QuerySafe ==
    check_moderation(CHOOSE o \in ModOutcomes : o.kind = query_moderation)[1]

\* the unsafe-content verdict message
FlaggedMsg == RefusalMsg("Content flagged for: " \o Join(", ", ModFlagged.categories))

-----------------------------------------------------------------------------
(* C1..C10: the policy gate and the turn *)

\* C1: a query with a self-harm keyword is answered with the fixed crisis
\* message in both slots, and the turn makes no document-store query and
\* no provider generation call.
C1_CrisisShortCircuit ==
    (InTurn /\ HasCrisisKeyword(query)) =>
        /\ CallsOf("query_documents") = {}
        /\ CallsOf("generate") = {}
        /\ Returned => ret = << CrisisMsg, CrisisMsg >>

\* C2: when the input checks disallow the query (check_moderation reports it
\* not safe, or it has a medical keyword) both slots get the same message and
\* nothing downstream runs: the only external call of the turn is the
\* moderation of the query; no retrieval, generation, output moderation,
\* metric scoring or log row.
C2_RejectedSkipsDownstream ==
    (pc \notin { "idle", "check_query", "medical" }
        /\ (~ QuerySafe \/ MatchesMedicalKeyword(query))) =>
        /\ pc \notin Downstream
        /\ pc # "raised"
        /\ Len(ret) = 2 /\ ret[1] = ret[2]
        /\ calls = << Event("moderation", 0, query) >>
        /\ context = Unset /\ messages = << >>
        /\ request1 = NoRequest /\ request2 = NoRequest
        /\ response1 = Unset /\ response2 = Unset
        /\ eval_cases = << >> /\ log_row = << >>

\* a medical query of a later turn of the session has been turned away
C2_Witness ==
    /\ pc = "returned"
    /\ query_moderation = "clean"
    /\ MatchesMedicalKeyword(query)
    /\ ret = << medical_msg, medical_msg >>
    /\ Len(arg_history) > 0

C4_GateOrder ==
    Returned =>
        /\ HasCrisisKeyword(query) => ret = << CrisisMsg, CrisisMsg >>
        /\ (~ HasCrisisKeyword(query) /\ query_moderation = "flagged")
              => ret = << FlaggedMsg, FlaggedMsg >>
        /\ (~ HasCrisisKeyword(query) /\ query_moderation = "clean"
               /\ MatchesMedicalKeyword(query))
              => ret = << medical_msg, medical_msg >>

\* C5: when the moderation call for the query raises, the query is treated
\* as allowed: without a crisis or medical keyword the turn goes on to
\* retrieval instead of returning a refusal.
C5_ModerationFailsOpen ==
    (query_moderation = "raise" /\ ~ MatchesMedicalKeyword(query)
        /\ ~ HasCrisisKeyword(query) /\ pc \notin { "idle", "check_query" }) =>
        /\ pc # "returned" \/ CallsOf("query_documents") # {}
        /\ Returned => ret[1] # RefusalMsg(check_moderation(ModRaise)[2])

\* C6: an error of one provider does not end the turn: get_responses still
\* returns, and an error in slot 1 does not keep the slot 2 call from being
\* made.
C6_ProviderErrorIsPartialSuccess ==
    /\ ~ (pc = "raised" /\ exc \in { "ProviderError1", "ProviderError2" })
    /\ (Returned /\ CallsOf("generate") # {}) =>
          Cardinality(CallsOf("generate")) = 2

\* C7: a failing document-store query does not end the turn: get_responses
\* goes on with an empty context and calls the providers.
C7_StoreFailureDegrades ==
    ~ (pc = "raised" /\ exc = "StoreError")

\* the context string is part of a message of the request
RequestCarries(req, ctx) ==
    \E i \in 1..Len(req.messages) : Contains(ctx, req.messages[i].content)

\* the request that was sent for a slot
RequestOf(slot) == IF slot = 1 THEN request1 ELSE request2

\* C8: every answer is scored against the context its provider received: the
\* retrieval context of each test case of a slot is contained in the request
\* sent for that slot.
C8_EvaluatedContextWasSent ==
    \A i \in 1..Len(eval_cases) :
        \A j \in 1..Len(eval_cases[i].retrieval_context) :
            RequestCarries(RequestOf(eval_cases[i].slot),
                           eval_cases[i].retrieval_context[j])

\* role names of a request, provider-independent
NormalRole(r) == IF r = "human" THEN "user" ELSE IF r = "ai" THEN "assistant" ELSE r

Normalised(msgs) ==
    [i \in 1..Len(msgs) |-> [role |-> NormalRole(msgs[i].role),
                             content |-> msgs[i].content]]

\* C9: the request sent for each slot is the shared message list: the system
\* message (instructions and context), the history messages in their order,
\* the query last.
C9_RequestShape ==
    \A slot \in {1, 2} :
        RequestOf(slot) # NoRequest =>
            LET sent == Normalised(RequestOf(slot).messages)
            IN  /\ sent = Normalised(messages)
                /\ sent[1] = [role |-> "system",
                              content |-> system_prompt \o "\n\nContext:\n" \o context]
                /\ sent[Len(sent)] = [role |-> "user", content |-> query]

\* C10: whatever path get_responses returns on, the returned tuple holds the
\* two texts and the context, so unpacking it into three names succeeds.
C10_ReturnsTextsAndContext ==
    /\ pc = "returned" => CanUnpack(ret, 3)
    /\ ~ (pc = "crashed" /\ caller = "synthetic")


-----------------------------------------------------------------------------
(* C11..C13: output moderation, failure messages, order of the turn *)

\* the texts the provider of a model label can generate
GeneratedTexts(m) ==
    { ResponseContent(available_models[m], o) :
        o \in { x \in ProviderOutcomes(available_models[m]) : x.kind = "ok" } }

\* C11: both generated texts are moderated before get_responses returns, and
\* whatever the moderation says the text returned for a slot is the text the
\* provider of that slot generated.
C11_OutputReturnedUnchanged ==
    (pc = "returned" /\ CallsOf("generate") # {}) =>
        /\ \E i, j \in CallsOf("moderation") :
              /\ i < j
              /\ calls[i] = Event("moderation", 1, response1)
              /\ calls[j] = Event("moderation", 2, response2)
        /\ Len(ret) = 2
        /\ ret[1] = response1 /\ ret[1] \in GeneratedTexts(model1)
        /\ ret[2] = response2 /\ ret[2] \in GeneratedTexts(model2)

\* a turn returned although the moderation did not pass the text of slot 1
C11_Witness ==
    /\ pc = "returned"
    /\ CallsOf("generate") # {}
    /\ ~ is_safe1 /\ is_safe2
    /\ ret = << response1, response2 >>

\* C12: no text returned to the user carries raw exception text; a failing
\* moderation call does not put its exception message into the returned text.
C12_NoRawExceptionText ==
    (Returned /\ query_moderation = "raise") =>
        \A i \in 1..Len(ret) : ~ Contains(ModRaise.msg, ret[i])

\* C13: in a turn the moderation of the query is the first external call, so
\* it is over before retrieval and generation start, and the log row is
\* written only after the generation calls of slot 1 and slot 2, in this
\* order, have both delivered their texts.
C13_TurnOrder ==
    /\ calls # << >> => calls[1] = Event("moderation", 0, query)
    /\ \A i \in CallsOf("query_documents") \cup CallsOf("generate") :
          /\ i > 1
          /\ query_moderation = "clean"
    /\ \A i \in CallsOf("log_row") :
          /\ \E j, k \in CallsOf("generate") :
                /\ j < k /\ k < i
                /\ calls[j].slot = 1 /\ calls[k].slot = 2
          /\ response1 # Unset /\ response2 # Unset

\* the log row of a turn has been written
C13_Witness ==
    /\ pc = "return"
    /\ CallsOf("log_row") # {}
    /\ Cardinality(CallsOf("generate")) = 2

-----------------------------------------------------------------------------
(* _create_chunks called on its own *)

\* the longest text and the largest chunk_size handed to _create_chunks
MaxTextLen == 5
MaxChunkSize == 5

\* the characters of the texts: two letters and two kinds of whitespace
Alphabet == { "a", "b", " ", "\n" }

\* the strings of length n over the alphabet
RECURSIVE StringsOfLen(_)
StringsOfLen(n) ==
    IF n = 0 THEN { "" }
    ELSE { s \o c : s \in StringsOfLen(n - 1), c \in Alphabet }

Texts == UNION { StringsOfLen(n) : n \in 0..MaxTextLen }

\* _create_chunks(text, chunk_size) has been called
InitChunks ==
    /\ ChatIdle
    /\ collection = << >>
    /\ dp = NoProcessor
    /\ query_result = NoResult
    /\ ex = ExIdle
    /\ OthersIdle
    /\ ck \in { [pc |-> "called", text |-> t, chunk_size |-> c, chunks |-> << >>] :
                 t \in Texts, c \in 1..MaxChunkSize }

\* embeddings.py:69-90: _create_chunks runs and returns its chunks
CK_CreateChunks ==
    /\ ck.pc = "called"
    /\ ck' = [ck EXCEPT !.pc = "done",
                        !.chunks = create_chunks(ck.text, ck.chunk_size)]
    /\ UNCHANGED << collection, dp, query_result, ex, ChatVars, Others >>

NextChunks == CK_CreateChunks

SpecChunks == InitChunks /\ [][NextChunks]_vars

\* Python: s.split(" "), the pieces between single spaces, empty ones included
SpaceSplit(s) ==
    LET cuts == { 0, Len(s) + 1 } \cup { i \in 1..Len(s) : CharAt(s, i) = " " }
        nth(n) == CHOOSE i \in cuts : Cardinality({ j \in cuts : j < i }) = n - 1
    IN  [n \in 1..(Cardinality(cuts) - 1) |->
            SubSeq(s, nth(n) + 1, nth(n + 1) - 1)]

\* the concatenation of a sequence of sequences
RECURSIVE Flatten(_)
Flatten(seqs) ==
    IF Len(seqs) = 0 THEN << >> ELSE Head(seqs) \o Flatten(Tail(seqs))

\* C16: _create_chunks never splits, loses, duplicates or reorders a word:
\* the chunks split on spaces and concatenated in chunk order are exactly the
\* whitespace-separated words of the text; no chunk is empty, and a text
\* without words gives no chunks
C16_ChunksKeepWords ==
    ck.pc = "done" =>
        /\ Flatten([i \in 1..Len(ck.chunks) |-> SpaceSplit(ck.chunks[i])])
              = split(ck.text)
        /\ \A i \in 1..Len(ck.chunks) : ck.chunks[i] # ""
        /\ split(ck.text) = << >> => ck.chunks = << >>

\* three words went into a chunk of two words and a last chunk of one
C16_Witness ==
    /\ ck.pc = "done"
    /\ ck.text = "a b\na"
    /\ ck.chunk_size = 4
    /\ ck.chunks = << "a b", "a" >>

\* the size _create_chunks counts for a chunk: each of its words as its
\* length plus 1
ChunkSizeOf(chunk) == Len(chunk) + 1

\* the size of a chunk without its last word
SizeWithoutLast(chunk) ==
    LET words == SpaceSplit(chunk)
    IN  ChunkSizeOf(chunk) - WordSize(words[Len(words)])

\* the total size of a text, each word counted as its length plus 1
TotalSize(text) == SizeOf(split(text), 1, Len(split(text)))

\* the least integer not below a / b
CeilDiv(a, b) == (a + b - 1) \div b

\* C25: chunk packing is greedy and bounded: every chunk but the last has
\* size >= chunk_size and is below chunk_size without its last word, the last
\* chunk has size >= 1, and a text of total size S > 0 gives at least one and
\* at most ceil(S / chunk_size) chunks
C25_GreedyBounded ==
    ck.pc = "done" =>
        LET n == Len(ck.chunks)
            S == TotalSize(ck.text)
        IN  /\ \A i \in 1..(n - 1) :
                  /\ ChunkSizeOf(ck.chunks[i]) >= ck.chunk_size
                  /\ SizeWithoutLast(ck.chunks[i]) < ck.chunk_size
            /\ n > 0 => ChunkSizeOf(ck.chunks[n]) >= 1
            /\ S > 0 => n >= 1 /\ n <= CeilDiv(S, ck.chunk_size)

\* a chunk that reached chunk_size exactly with its second word, and a last
\* chunk below chunk_size
C25_Witness ==
    /\ ck.pc = "done"
    /\ ck.text = "a b a"
    /\ ck.chunk_size = 4
    /\ ck.chunks = << "a b", "a" >>
    /\ TotalSize(ck.text) = 6

-----------------------------------------------------------------------------
(* extract_claude_text called on its own *)

\* the longest list of blocks handed to extract_claude_text
MaxBlocks == 2

\* the values that are not lists: strings, dicts with a string or an int
\* under "text", objects with a text attribute, and an int
Blocks ==
    { Str("hi"), Str(""), Dict("Use"), DictInt("5"), Obj("VA.gov"), Obj(""),
      IntVal("7") }

\* the lists of n blocks
RECURSIVE BlockLists(_)
BlockLists(n) ==
    IF n = 0 THEN { << >> }
    ELSE { Append(xs, b) : xs \in BlockLists(n - 1), b \in Blocks }

\* the arguments of extract_claude_text
Contents ==
    Blocks \cup { List(xs) : xs \in UNION { BlockLists(n) : n \in 0..MaxBlocks } }

\* extract_claude_text(content) has been called
InitExtract ==
    /\ ChatIdle
    /\ collection = << >>
    /\ dp = NoProcessor
    /\ query_result = NoResult
    /\ ck = CkIdle
    /\ OthersIdle
    /\ ex \in { [pc |-> "called", content |-> c, result |-> Str(""),
                 again |-> Str("")] : c \in Contents }

\* chatbot.py:88-110: extract_claude_text returns, or raises TypeError
EX_Extract ==
    /\ ex.pc = "called"
    /\ LET r == extract_claude_text(ex.content)
       IN  ex' = [ex EXCEPT !.pc = IF r = TypeError THEN "raised" ELSE "done",
                            !.result = r]
    /\ UNCHANGED << collection, dp, query_result, ck, ChatVars, Others >>

\* extract_claude_text is applied to the value it returned
EX_Again ==
    /\ ex.pc = "done"
    /\ ex' = [ex EXCEPT !.pc = "done_twice",
                        !.again = extract_claude_text(ex.result)]
    /\ UNCHANGED << collection, dp, query_result, ck, ChatVars, Others >>

NextExtract == EX_Extract \/ EX_Again

SpecExtract == InitExtract /\ [][NextExtract]_vars

\* the blocks of a list that carry a text: dicts with a string under "text"
\* and objects with a text attribute
IsTextBlock(b) == b.kind \in { "dict", "obj" }

\* C19: extract_claude_text applied to a plain string returns that string
\* unchanged, so that applying it twice equals applying it once, and applied
\* to a list of text blocks returns the texts of the blocks concatenated in
\* list order with nothing between them
C19_FlattenConcatenates ==
    /\ (ex.pc \in { "done", "done_twice" } /\ ex.content.kind = "str") =>
          ex.result = ex.content
    /\ (ex.pc = "done_twice" /\ ex.content.kind = "str") =>
          ex.again = ex.result
    /\ (ex.pc \in { "done", "done_twice" } /\ ex.content.kind = "list"
          /\ \A i \in 1..Len(ex.content.items) : IsTextBlock(ex.content.items[i])) =>
          ex.result =
             Str(Join("", [i \in 1..Len(ex.content.items) |->
                               ex.content.items[i].text]))

\* C20: whatever the shape of its argument, extract_claude_text returns a
\* value of type string
C20_ReturnsString ==
    ex.pc # "called" => (ex.pc # "raised" /\ ex.result.kind = "str")

-----------------------------------------------------------------------------
(* Properties of the document store *)

\* C14: over any sequence of constructions on the same persistent store, the
\* constructor ingests only when the store is empty: a processor constructed
\* over a store that holds chunks is ready at once with the count it found,
\* and the construction leaves the stored chunks as they were
C14_IngestOnlyWhenEmpty ==
    /\ []((dp.by = "init" /\ dp.count0 > 0) =>
            (dp.pc = "ready" /\ Len(collection) = dp.count0))
    /\ [][(dp.pc # "ingest" /\ dp'.by = "init" /\ Len(collection) > 0) =>
            (collection' = collection /\ dp'.pc = "ready")]_vars

\* a processor was constructed over a store of three chunks
C14_Witness ==
    dp.by = "init" /\ dp.pc = "ready" /\ dp.count0 = 3 /\ Len(collection) = 3

\* process_documents(file of the scenario, chunk_size = 100) ran to its end
\* on a store that was empty
ScenarioDone ==
    /\ dp.pc = "ready"
    /\ dp.by = "direct"
    /\ dp.file = ScenarioFile
    /\ dp.chunk_size = 100
    /\ dp.count0 = 0

\* C15: the scenario stores exactly one chunk, with metadata
\* url u1, title t1, chunk_idx 0
C15_ScenarioOneChunk ==
    ScenarioDone =>
        /\ Len(collection) = 1
        /\ collection[1].metadata = [url |-> "u1", title |-> "t1", chunk_idx |-> 0]

\* an ingestion into a store that was empty ran to its end
IngestedIntoEmpty ==
    /\ dp.pc = "ready"
    /\ dp.by \in { "init", "direct" }
    /\ dp.count0 = 0

\* the chunk the store must hold for chunk j (from 0) of document i (from 0)
ExpectedChunk(i, j) ==
    [id |-> "doc_" \o ToString(i) \o "_chunk_" \o ToString(j),
     text |-> create_chunks(dp.file[i + 1].content, dp.chunk_size)[j + 1],
     metadata |-> [url |-> dp.file[i + 1].url,
                   title |-> dp.file[i + 1].title,
                   chunk_idx |-> j]]

\* the number of chunks of document i (from 0)
NChunks(i) == Len(create_chunks(dp.file[i + 1].content, dp.chunk_size))

\* C17: after an ingestion into an empty store the ids are pairwise
\* distinct, and the store holds exactly, for every document i and every
\* j in 0..n-1 (n the number of its chunks), the chunk doc_<i>_chunk_<j> with
\* the j-th chunk text, url and title of document i, and chunk_idx = j
C17_IdsAndMetadata ==
    IngestedIntoEmpty =>
        /\ \A a, b \in 1..Len(collection) :
              collection[a].id = collection[b].id => a = b
        /\ \A i \in 0..(Len(dp.file) - 1) : \A j \in 0..(NChunks(i) - 1) :
              \E a \in 1..Len(collection) : collection[a] = ExpectedChunk(i, j)
        /\ \A a \in 1..Len(collection) :
              \E i \in 0..(Len(dp.file) - 1) : \E j \in 0..(NChunks(i) - 1) :
                 collection[a] = ExpectedChunk(i, j)

\* two documents were ingested into an empty store
C17_Witness ==
    IngestedIntoEmpty /\ dp.file = TwoDocFile /\ Len(collection) = 2

\* C18: query_documents(query, k) returns at most k results, each the text
\* and metadata of a chunk the store holds, and leaves the store as it was
C18_QueryBounded ==
    /\ []((query_result.k > 0 /\ ~ query_result.raised) =>
            /\ Len(query_result.docs) <= query_result.k
            /\ \A i \in 1..Len(query_result.docs) :
                  \E a \in 1..Len(collection) :
                     /\ collection[a].text = query_result.docs[i].text
                     /\ collection[a].metadata = query_result.docs[i].metadata)
    /\ [][(query_result' # query_result /\ query_result'.k > 0) =>
            collection' = collection]_vars

\* a query for one result over a store of three chunks
C18_Witness ==
    /\ query_result.k = 1
    /\ Len(query_result.docs) = 1
    /\ Len(collection) = 3

\* the store holds every chunk the running or failed ingestion has to add
HoldsAllChunks(coll) ==
    \A c \in 1..Len(Adds) : \E i \in 1..Len(coll) : coll[i] = Adds[c]

\* C26: a store that a later construction finds non-empty, and so does not
\* ingest again, holds the chunks of every document of the input file, also
\* when the construction before it was interrupted part-way: the store is
\* never left for good with a part of the document set
C26_NonEmptyStoreComplete ==
    [][(/\ dp.pc = "failed"
        /\ dp.by = "init"
        /\ Len(collection) > 0
        /\ dp'.by = "init"
        /\ dp'.pc = "ready") => HoldsAllChunks(collection')]_vars

-----------------------------------------------------------------------------
(* C24, C27: the adapters and the history filter *)

\* the turn is an allowed one: the input checks let the query through
AllowedTurn ==
    /\ pc \notin { "idle", "check_query", "medical" }
    /\ QuerySafe
    /\ ~ MatchesMedicalKeyword(query)
    /\ ~ HasCrisisKeyword(query)

\* get_responses is over, by a return or by an exception
TurnOver ==
    pc \in { "returned", "main_update", "raised", "crashed", "synthetic_scored" }

\* the generation calls this turn made for a slot
GenerateCalls(slot) == { i \in CallsOf("generate") : calls[i].slot = slot }

\* the label selected for a slot
ModelOf(slot) == IF slot = 1 THEN model1 ELSE model2

\* C24: every provider kind maps to exactly one adapter: an allowed turn
\* makes exactly one generation call per slot, slot 1 before slot 2, with the
\* OpenAI-style adapter iff the slot's provider is "openai" and the
\* Claude-style adapter iff it is "claude", and with the model id and the
\* temperature of the slot's configuration
C24_OneAdapterPerProvider ==
    AllowedTurn =>
        /\ \A slot \in { 1, 2 } :
              /\ Cardinality(GenerateCalls(slot)) <= 1
              /\ TurnOver => Cardinality(GenerateCalls(slot)) = 1
              /\ GenerateCalls(slot) # {} =>
                    LET cfg == available_models[ModelOf(slot)]
                        req == RequestOf(slot)
                    IN  /\ req.adapter = "openai" <=> cfg.provider = "openai"
                        /\ req.adapter = "claude" <=> cfg.provider = "claude"
                        /\ req.model = cfg.model
                        /\ req.temperature = cfg.temperature
        /\ \A i \in GenerateCalls(1), j \in GenerateCalls(2) : i < j

\* the history messages of a message list: what stands between the system
\* message and the query that ends the list
HistoryPart(msgs) ==
    LET first == IF Len(msgs) > 0 /\ msgs[1].role = "system" THEN 2 ELSE 1
    IN  Normalised(SubSeq(msgs, first, Len(msgs) - 1))

\* the history without the user messages whose check reported not safe
KeptHistory(hist, safe) ==
    LET kept   == { i \in 1..Len(hist) : hist[i].role # "user" \/ safe[i] }
        nth(n) == CHOOSE i \in kept : Cardinality({ j \in kept : j < i }) = n - 1
    IN  [n \in 1..Cardinality(kept) |->
            [role |-> hist[nth(n)].role, content |-> hist[nth(n)].content]]

\* C27: history filtering keeps order and drops only unsafe user turns: the
\* history messages passed on to the provider of each slot are the input
\* history without exactly the user messages whose moderation check reported
\* not safe; the assistant messages are all kept, and the kept messages stand
\* in the order of the input history
C27_HistoryFiltered ==
    \A slot \in { 1, 2 } :
        RequestOf(slot) # NoRequest =>
            HistoryPart(RequestOf(slot).messages)
                = KeptHistory(arg_history, history_safe)

\* the message list get_responses builds holds the filtered history
C27_MessagesFiltered ==
    pc \in { "model1", "model2" } =>
        HistoryPart(messages) = KeptHistory(arg_history, history_safe)

-----------------------------------------------------------------------------
(* CustomOpenAIEmbeddingFunction called on its own *)

\* the longest list of texts handed to the embedding function
MaxBatch == 3

\* the texts to embed
EmbedTexts == { "GI Bill", "Login.gov", "" }

\* embeddings.py:13: self.model
embedding_model == "text-embedding-3-small"

\* the vector the embedding service computes for a text
Embedding(t) == [embedding_of |-> t]

\* the lists of n texts
RECURSIVE TextLists(_)
TextLists(n) ==
    IF n = 0 THEN { << >> }
    ELSE { Append(xs, t) : xs \in TextLists(n - 1), t \in EmbedTexts }

\* response.data of client.embeddings.create: one item per input, by index
ResponseData(input) ==
    [i \in 1..Len(input) |-> [index |-> i - 1, embedding |-> Embedding(input[i])]]

\* __call__(input) has been called
InitEmbed ==
    /\ ChatIdle
    /\ collection = << >>
    /\ dp = NoProcessor
    /\ query_result = NoResult
    /\ ck = CkIdle
    /\ ex = ExIdle
    /\ ev = EvIdle
    /\ sc = ScIdle
    /\ em \in { [EmIdle EXCEPT !.pc = "called", !.input = xs] :
                 xs \in UNION { TextLists(n) : n \in 0..MaxBatch } }

NotEmbed == << collection, dp, query_result, ck, ex, ev, sc, ChatVars >>

\* the entry of __call__ without the test for an empty input
EM_Call_NoEmptyCheck ==
    /\ em.pc = "called"
    /\ em' = [em EXCEPT !.pc = "service",
                        !.service_calls =
                            Append(@, [model |-> embedding_model,
                                       input |-> em.input])]
    /\ UNCHANGED NotEmbed

\* embeddings.py:16-24: an empty input is answered with [] at once, any other
\* input is sent to the embedding service
EM_Call ==
    /\ em.pc = "called"
    /\ em' = IF em.input = << >>
             THEN [em EXCEPT !.pc = "done", !.output = << >>]
             ELSE [em EXCEPT !.pc = "service",
                             !.service_calls =
                                 Append(@, [model |-> embedding_model,
                                            input |-> em.input])]
    /\ UNCHANGED NotEmbed

\* embeddings.py:21-26: the service answers and the embeddings are taken from
\* response.data in its order, or the service call raises
EM_Response ==
    /\ em.pc = "service"
    /\ \/ LET data == ResponseData(em.input)
          IN  em' = [em EXCEPT !.pc = "done",
                               !.output = [i \in 1..Len(data) |-> data[i].embedding]]
       \/ em' = [em EXCEPT !.pc = "raised"]
    /\ UNCHANGED NotEmbed

NextEmbed == EM_Call \/ EM_Response

SpecEmbed == InitEmbed /\ [][NextEmbed]_vars

\* C21: the embedding function returns one vector per input text, the i-th
\* being the embedding of the i-th text, and answers an empty input with an
\* empty list without calling the embedding service
C21_OneVectorPerInput ==
    /\ em.pc = "done" =>
          /\ Len(em.output) = Len(em.input)
          /\ \A i \in 1..Len(em.input) : em.output[i] = Embedding(em.input[i])
    /\ (em.pc \notin { "idle", "called" } /\ em.input = << >>) =>
          /\ em.pc = "done"
          /\ em.output = << >>
          /\ em.service_calls = << >>

\* two different texts were embedded
C21_Witness ==
    /\ em.pc = "done"
    /\ Len(em.input) = 2
    /\ em.input[1] # em.input[2]
    /\ Len(em.service_calls) = 1

-----------------------------------------------------------------------------
(* Properties of the session history and of the adapters *)

\* C22: over the queries submitted in one session the history is strictly
\* append-only: every change appends one user turn (the query) followed by
\* one assistant turn and leaves the earlier turns as they were; every query
\* main submitted has appended its two turns when its turn is over; and
\* get_responses leaves the history it is given unchanged
C22_HistoryAppendOnly ==
    [][/\ chat_history' # chat_history =>
             /\ Len(chat_history') = Len(chat_history) + 2
             /\ SubSeq(chat_history', 1, Len(chat_history)) = chat_history
             /\ chat_history'[Len(chat_history) + 1] =
                   [role |-> "user", content |-> query]
             /\ chat_history'[Len(chat_history) + 2].role = "assistant"
       /\ (caller = "main" /\ pc # "idle" /\ pc' = "idle") =>
             chat_history' # chat_history
       /\ (InTurn /\ pc' # "idle") =>
             (chat_history' = chat_history /\ arg_history' = arg_history)
      ]_vars

-----------------------------------------------------------------------------
(* chat_eval_log.csv and its two writers *)

\* the largest number of rows written to the file
MaxWrites == 3

\* chat_evaluator.py:126-144: the keys of result, the fieldnames of the row
\* _log_evaluation_result appends
eval_fieldnames ==
    << "timestamp", "query", "model1_response", "model2_response",
       "relevancy_1", "faithfulness_1", "contextual_precision_1",
       "contextual_recall_1", "contextual_relevancy_1",
       "call_deflection_effectiveness_1",
       "relevancy_2", "faithfulness_2", "contextual_precision_2",
       "contextual_recall_2", "contextual_relevancy_2",
       "call_deflection_effectiveness_2", "conversation_completeness" >>

\* chat_evaluator.py:126-144: the values of result, in the order of its keys
EvalRow(q, r1, r2) ==
    << "now", q, r1, r2,
       Score("relevancy", 1), Score("faithfulness", 1),
       Score("contextual_precision", 1), Score("contextual_recall", 1),
       Score("contextual_relevancy", 1), Score("call_deflection", 1),
       Score("relevancy", 2), Score("faithfulness", 2),
       Score("contextual_precision", 2), Score("contextual_recall", 2),
       Score("contextual_relevancy", 2), Score("call_deflection", 2),
       Score("conversation_completeness", 1) >>

\* the file does not exist yet
InitLog ==
    /\ ChatIdle
    /\ collection = << >>
    /\ dp = NoProcessor
    /\ query_result = NoResult
    /\ ck = CkIdle
    /\ ex = ExIdle
    /\ OthersIdle

NotLog == << chat_history, collection, pc, calls, Locals, Gate, caller, context,
             messages, request1, request2, response1, response2, is_safe1,
             is_safe2, eval_cases, ret, exc, unpacked, Aux >>

\* chatbot.py:274-300: get_responses logs the row of a turn
LOG_Chatbot ==
    /\ DataRows(csv_file) < MaxWrites
    /\ \E q \in Queries :
          /\ log_row' = LogRow(q, "GPT-3.5 (Cheap)", "Claude-3.7-Sonnet (Cheap)",
                               "Apply online at VA.gov.", "Use\nVA.gov")
          /\ csv_file' = AppendRow(csv_file, log_fieldnames, log_row')
    /\ UNCHANGED NotLog

\* chat_evaluator.py:152-160: _log_evaluation_result logs a result
LOG_Evaluator ==
    /\ DataRows(csv_file) < MaxWrites
    /\ \E q \in Queries :
          /\ log_row' = EvalRow(q, "Apply online at VA.gov.", "Use\nVA.gov")
          /\ csv_file' = AppendRow(csv_file, eval_fieldnames, log_row')
    /\ UNCHANGED NotLog

NextLog == LOG_Chatbot \/ LOG_Evaluator

SpecLog == InitLog /\ [][NextLog]_vars

\* the lines of the file that are a header
HeaderLines(f) ==
    { i \in 1..Len(f.lines) : f.lines[i] \in { log_fieldnames, eval_fieldnames } }

\* C23: over any sequence of writes to chat_eval_log.csv the header is
\* written exactly once, as the first line, by the write that finds no
\* file, and every write appends exactly one row and leaves every earlier
\* line as it was
C23_HeaderOnceRowsAppended ==
    /\ [](csv_file.exists => HeaderLines(csv_file) = { 1 })
    /\ [][csv_file' # csv_file =>
             /\ csv_file'.exists
             /\ Len(csv_file'.lines) =
                   Len(csv_file.lines) + (IF csv_file.exists THEN 1 ELSE 2)
             /\ SubSeq(csv_file'.lines, 1, Len(csv_file.lines)) = csv_file.lines
             /\ csv_file'.lines[Len(csv_file'.lines)] = log_row'
         ]_vars

\* three rows were written after the header
C23_Witness == Len(csv_file.lines) = 4 /\ HeaderLines(csv_file) = { 1 }

\* C28: every data row of chat_eval_log.csv has the columns of the file's
\* header, one field for each column of the header, whichever of the two
\* writers wrote the row and the header
C28_RowsMatchHeader ==
    \A i \in 2..Len(csv_file.lines) :
        Len(csv_file.lines[i]) = Len(csv_file.lines[1])

-----------------------------------------------------------------------------
(* The assistant turn main stores and the evaluator splits *)

\* Python: s.find(sep) from position from on, 0 when sep does not occur
Find(s, sep, from) ==
    LET at == { i \in from..(Len(s) - Len(sep) + 1) :
                    SubSeq(s, i, i + Len(sep) - 1) = sep }
    IN  IF at = {} THEN 0 ELSE CHOOSE i \in at : \A j \in at : i <= j

\* Python: s.split(sep) from position from on, for a non-empty sep: the
\* pieces between the occurrences of sep, taken from the left
RECURSIVE SplitFrom(_, _, _)
SplitFrom(s, sep, from) ==
    LET i == Find(s, sep, from)
    IN  IF i = 0 THEN << SubSeq(s, from, Len(s)) >>
        ELSE << SubSeq(s, from, i - 1) >> \o SplitFrom(s, sep, i + Len(sep))

\* Python: s.split(sep)
str_split(s, sep) == SplitFrom(s, sep, 1)

\* Python: s.replace(old, new), every occurrence from the left
str_replace(s, old, new) == Join(new, str_split(s, old))

\* Python: s.strip()
str_strip(s) ==
    LET solid == { i \in 1..Len(s) : CharAt(s, i) \notin Whitespace }
    IN  IF solid = {} THEN ""
        ELSE SubSeq(s, CHOOSE i \in solid : \A j \in solid : i <= j,
                       CHOOSE i \in solid : \A j \in solid : i >= j)

\* chat_evaluator.py:75-86, dashboard.py:22-28: the two texts taken out of a
\* stored assistant turn
split_responses(response) ==
    IF Contains("Model 1", response) /\ Contains("Model 2", response)
    THEN LET parts == str_split(response, "Model 2")
         IN  << str_strip(str_replace(parts[1], "Model 1", "")),
                str_strip(parts[2]) >>
    ELSE << response, response >>

\* the texts get_responses returns for a slot
EvalTexts ==
    { "Apply online at VA.gov.", "Yes", " See the form.\n", "Ask Model 2" }

\* get_responses returned response1 and response2 to main for model1, model2
InitEval ==
    /\ ChatIdle
    /\ collection = << >>
    /\ dp = NoProcessor
    /\ query_result = NoResult
    /\ ck = CkIdle
    /\ ex = ExIdle
    /\ em = EmIdle
    /\ sc = ScIdle
    /\ ev \in { [EvIdle EXCEPT !.pc = "returned", !.model1 = m1, !.model2 = m2,
                               !.response1 = r1, !.response2 = r2] :
                 m1 \in SelectableModels, m2 \in SelectableModels,
                 r1 \in EvalTexts, r2 \in EvalTexts }

NotEval == << collection, dp, query_result, ck, ex, em, sc, ChatVars >>

\* chatbot.py:351-355: main stores the assistant turn
EV_Store ==
    /\ ev.pc = "returned"
    /\ ev' = [ev EXCEPT !.pc = "stored",
                        !.content = AssistantTurn(ev.model1, ev.model2,
                                                  ev.response1, ev.response2)]
    /\ UNCHANGED NotEval

\* chat_evaluator.py:72-86: evaluate_chat_history separates the two responses
EV_Evaluate ==
    /\ ev.pc = "stored"
    /\ LET res == split_responses(ev.content)
       IN  ev' = [ev EXCEPT !.pc = "evaluated",
                            !.model1_response = res[1],
                            !.model2_response = res[2]]
    /\ UNCHANGED NotEval

\* dashboard.py:22-31: the dashboard separates the two responses
EV_Dashboard ==
    /\ ev.pc = "stored"
    /\ LET res == split_responses(ev.content)
       IN  ev' = [ev EXCEPT !.pc = "dashboard",
                            !.model1_response = res[1],
                            !.model2_response = res[2]]
    /\ UNCHANGED NotEval

NextEval == EV_Store \/ EV_Evaluate \/ EV_Dashboard

SpecEval == InitEval /\ [][NextEval]_vars

\* C29: round trip between the chat UI and the evaluator: from the assistant
\* turn main stored for the two texts get_responses returned, the evaluator
\* (and the dashboard) recover model1_response equal to the first text and
\* model2_response equal to the second, for every pair of texts and labels
C29_RoundTrip ==
    ev.pc \in { "evaluated", "dashboard" } =>
        /\ ev.model1_response = ev.response1
        /\ ev.model2_response = ev.response2

-----------------------------------------------------------------------------
(* VAScraper.crawl_va_pages over a small site *)

\* the largest max_pages a crawl is called with
MaxPages == 2

\* scraper.py:14
base_url == "https://www.va.gov"

\* scraper.py:16-24
excluded_patterns ==
    { "/directory/", "javascript:", "tel:", "mailto:", ".pdf", ".doc", "#" }

\* scraper.py:211-215
sign_in_keywords ==
    { "sign-in", "signin", "login", "log-in", "account", "profile", "verify",
      "authentication", "identity", "credentials", "password", "security",
      "access", "myva", "my.va", "id.me", "login.gov" }

\* Python: s.startswith(prefix)
StartsWith(s, prefix) ==
    Len(s) >= Len(prefix) /\ SubSeq(s, 1, Len(prefix)) = prefix

\* scraper.py:41-50
is_valid_url(url) ==
    /\ StartsWith(url, base_url)
    /\ ~ \E pattern \in excluded_patterns : Contains(pattern, Lower(url))

\* scraper.py:52-64: the URL without its query and its fragment (the URLs of
\* the site carry no parameters)
clean_url(url) ==
    LET cuts == { i \in 1..Len(url) : CharAt(url, i) \in { "?", "#" } }
    IN  IF cuts = {} THEN url
        ELSE SubSeq(url, 1, (CHOOSE i \in cuts : \A j \in cuts : i <= j) - 1)

\* scraper.py:219-228
is_sign_in_related(url, title, content) ==
    \/ \E keyword \in sign_in_keywords : Contains(keyword, Lower(url))
    \/ \E keyword \in sign_in_keywords :
          Contains(keyword, Lower(title \o " " \o content))

\* a page of the site, and an anchor of a page
Page(title, content) == [title |-> title, content |-> content]
Link(href, text) == [href |-> href, text |-> text]

\* get_page_content found too little content
NoPage == [title |-> "", content |-> ""]

\* the URLs of the site
SignIn  == "https://www.va.gov/sign-in/"
Faq     == "https://www.va.gov/sign-in/faq/"
Health  == "https://www.va.gov/health/"
Account == "https://www.va.gov/account/"

\* what get_page_content extracts from a URL of the site
SitePage(url) ==
    CASE url = SignIn -> Page("Sign in", "Sign in to VA.gov")
      [] url = Faq    -> Page("Help", "Questions about Login.gov")
      [] url = Health -> Page("Health care", "VA health care")
      [] OTHER        -> NoPage

\* the anchors of the HTML of a URL of the site
SiteLinks(url) ==
    CASE url = SignIn ->
            << Link("/sign-in/faq/?a=1", "FAQ"),
               Link("/sign-in/#top", "Top"),
               Link("https://www.va.gov/sign-in/faq/", "Login help"),
               Link("/health/", "Manage account"),
               Link("/forms/login.pdf", "Form"),
               Link("https://id.me/login", "ID.me") >>
      [] url = Faq ->
            << Link("/sign-in/", "Sign in"),
               Link("/account/", "Account"),
               Link("/about/", "About") >>
      [] OTHER -> << >>

\* scraper.py:254-274: the links of a page taken one after the other, each
\* one appended to to_visit when it is valid, not visited, not queued and
\* sign-in related
RECURSIVE FollowLinks(_, _, _, _)
FollowLinks(links, i, visited, to_visit) ==
    IF i > Len(links) THEN to_visit
    ELSE LET href == links[i].href
             full_url ==
                 clean_url(IF StartsWith(href, "/") THEN base_url \o href
                           ELSE href)
         IN  IF /\ StartsWith(href, "/") \/ StartsWith(href, base_url)
                /\ is_valid_url(full_url)
                /\ full_url \notin visited
                /\ \A k \in 1..Len(to_visit) : to_visit[k] # full_url
                /\ is_sign_in_related(full_url, links[i].text, "")
             THEN FollowLinks(links, i + 1, visited, Append(to_visit, full_url))
             ELSE FollowLinks(links, i + 1, visited, to_visit)

\* scraper_config.json: the start URLs of the crawls
StartUrls == { SignIn, "https://www.va.gov/sign-in/?next=faq", Health }

\* the scraper the script constructs
InitCrawl ==
    /\ ChatIdle
    /\ collection = << >>
    /\ dp = NoProcessor
    /\ query_result = NoResult
    /\ ck = CkIdle
    /\ ex = ExIdle
    /\ em = EmIdle
    /\ ev = EvIdle
    /\ sc = ScIdle

NotCrawl == << collection, dp, query_result, ck, ex, em, ev, ChatVars >>

\* scraper.py:205-209: crawl_va_pages(start_url, max_pages) is called
CR_Call ==
    /\ sc.pc = "idle"
    /\ \E start_url \in StartUrls, max_pages \in 1..MaxPages :
          sc' = [sc EXCEPT !.pc = "loop", !.pages_data = << >>,
                           !.to_visit = << start_url >>,
                           !.max_pages = max_pages, !.returned = << >>]
    /\ UNCHANGED NotCrawl

\* scraper.py:230-235: an iteration that pops a URL already visited
CR_Skip ==
    /\ sc.pc = "loop"
    /\ sc.to_visit # << >>
    /\ Len(sc.pages_data) < sc.max_pages
    /\ clean_url(Head(sc.to_visit)) \in sc.visited_urls
    /\ sc' = [sc EXCEPT !.to_visit = Tail(@)]
    /\ UNCHANGED NotCrawl

\* scraper.py:230-279: an iteration that scrapes the URL it pops:
\* get_page_content requests the page and gives its data or None; a sign-in
\* related page is kept and requested once more for its links, which are
\* queued unless that request fails
CR_Scrape ==
    /\ sc.pc = "loop"
    /\ sc.to_visit # << >>
    /\ Len(sc.pages_data) < sc.max_pages
    /\ LET current_url == clean_url(Head(sc.to_visit))
           to_visit    == Tail(sc.to_visit)
           visited     == sc.visited_urls \cup { current_url }
       IN  /\ current_url \notin sc.visited_urls
           /\ \E page_data \in { SitePage(current_url), NoPage } :
                 IF /\ page_data # NoPage
                    /\ is_sign_in_related(current_url, page_data.title,
                                          page_data.content)
                 THEN \E links \in { SiteLinks(current_url), << >> } :
                         sc' = [sc EXCEPT
                                  !.visited_urls = visited,
                                  !.pages_data =
                                      Append(@, [url |-> current_url,
                                                 title |-> page_data.title,
                                                 content |-> page_data.content]),
                                  !.fetched = @ \o << current_url, current_url >>,
                                  !.to_visit =
                                      FollowLinks(links, 1, visited, to_visit)]
                 ELSE sc' = [sc EXCEPT !.visited_urls = visited,
                                       !.to_visit = to_visit,
                                       !.fetched = Append(@, current_url)]
    /\ UNCHANGED NotCrawl

\* scraper.py:230, 281: the loop is over and pages_data is returned
CR_Return ==
    /\ sc.pc = "loop"
    /\ sc.to_visit = << >> \/ Len(sc.pages_data) >= sc.max_pages
    /\ sc' = [sc EXCEPT !.pc = "idle", !.returned = sc.pages_data,
                        !.to_visit = << >>, !.pages_data = << >>]
    /\ UNCHANGED NotCrawl

NextCrawl == CR_Call \/ CR_Skip \/ CR_Scrape \/ CR_Return

SpecCrawl == InitCrawl /\ [][NextCrawl]_vars

\* how often the scraper requested url
TimesFetched(url) ==
    Cardinality({ i \in 1..Len(sc.fetched) : sc.fetched[i] = url })

\* C30: over any sequence of crawl_va_pages calls on one scraper no cleaned
\* URL is fetched more than once, and each call returns at most max_pages
\* pages with pairwise distinct URLs
C30_FetchedOnce ==
    /\ \A i \in 1..Len(sc.fetched) : TimesFetched(sc.fetched[i]) <= 1
    /\ Len(sc.returned) <= sc.max_pages
    /\ \A i, j \in 1..Len(sc.returned) :
          sc.returned[i].url = sc.returned[j].url => i = j

\* no URL is scraped by get_page_content more than once, in whatever call
C30_ScrapedOnce ==
    [][\A i \in 1..Len(sc.pages_data') :
          i > Len(sc.pages_data) =>
              sc.pages_data'[i].url \notin sc.visited_urls]_vars

\* each call returns at most max_pages pages with pairwise distinct URLs
C30_ReturnedBounded ==
    /\ Len(sc.returned) <= sc.max_pages
    /\ Len(sc.pages_data) <= sc.max_pages
    /\ \A i, j \in 1..Len(sc.returned) :
          sc.returned[i].url = sc.returned[j].url => i = j

\* the loop of a running call goes on: its iterations are steps of one
\* sequential process
FairCrawl == SpecCrawl /\ WF_vars(CR_Skip \/ CR_Scrape \/ CR_Return)

\* on the finite site every call returns
C30_Terminates == (sc.pc = "loop") ~> (sc.pc = "idle")

====
